---- MODULE Spec2Model ----
(***************************************************************************)
(* Folder-path picker attachments of ComfyUI-BearCave.                     *)
(*                                                                         *)
(* One node instance of a targeted node type is modelled together with the *)
(* one extension (attachment variant) that wrapped its hooks.  The state   *)
(* is the node's widget list, the target widget's value and handlers, the  *)
(* pending timers, the double-click detector, the overlay dialogs attached *)
(* to the document and the pending native directory picker.  Every hook,   *)
(* timer callback and DOM handler of the sources is one action.  The       *)
(* record `step' describes what the last handler did (prompts shown,       *)
(* callbacks invoked, errors thrown); the properties read it.              *)
(***************************************************************************)
EXTENDS Integers, Sequences, FiniteSets, TLC

\* ------------------------------------------------------------------ bounds
MaxLen == 2          \* longest string the user types
MaxClicks == 3       \* widget click events delivered by the host
MaxDialogs == 2      \* overlay dialogs created in one run
MaxWidgets == 3      \* widgets the host built before the UI-groups timer
Epoch == 1000        \* Date.now() when the page is loaded (ms)

\* --------------------------------------------------------------- constants
DoubleClickMs == 300

VARIABLES
    ext,            \* the extension that wrapped the node type's hooks
    hasWidgets,     \* node.widgets is an array (FALSE: undefined)
    widgets,        \* node.widgets, a sequence of [type, name]
    value,          \* target widget's .value
    origCb,         \* the target widget had a callback before attachment
    created,        \* "new", "ok" (onNodeCreated returned), "threw"
    timers,         \* pending setTimeout callbacks of this node
    hooked,         \* handlers of the target widget replaced by the attachment
    domBtn,         \* the DOM browse button is appended to the widget element
    lastClickTime,  \* the detector's closure variable
    now,            \* Date.now()
    clicks,         \* click events delivered so far
    run,            \* the current run of clicks less than 300 ms apart
    apiAvail,       \* app.FileFolderAPI is defined
    pickerAvail,    \* 'showDirectoryPicker' in window
    dialogs,        \* overlay dialogs created so far
    docKeydown,     \* document.onkeydown: index of the dialog that set it, 0 = none
    picker,         \* the pending window.showDirectoryPicker() promise
    menu,           \* the menuOptions array after the last getExtraMenuOptions
    commits,        \* the last commit to the widget and the one before it
    other,          \* a second node of the same type with the target widget
    groups,         \* TORTU.UIGroups on this node: "idle", "timer", "done"
    registry,       \* node types offered to the extension and what it replaced
    registered,     \* app.registerExtension calls the attachment has made
    step            \* what the last handler did

vars == << ext, hasWidgets, widgets, value, origCb, created, timers, hooked,
           domBtn, lastClickTime, now, clicks, run, apiAvail, pickerAvail, dialogs,
           docKeydown, picker, menu, commits, other, groups, registry,
           registered, step >>

\* ----------------------------------------------------------------- strings
\* A string is a sequence of characters; " " is the only whitespace used.
Chars == {" ", "a"}

Strings == UNION { [1..n -> Chars] : n \in 0..MaxLen }

\* prompt() returns null when the user cancels it
Null == << "null" >>

Answers == Strings \cup {Null}

\* FileSystemDirectoryHandle.name of a picked folder
DirNames == { << "a" >> }

RECURSIVE TrimStart(_)
TrimStart(s) ==
    IF s = << >> THEN s
    ELSE IF Head(s) = " " THEN TrimStart(Tail(s)) ELSE s

RECURSIVE TrimEnd(_)
TrimEnd(s) ==
    IF s = << >> THEN s
    ELSE IF s[Len(s)] = " " THEN TrimEnd(SubSeq(s, 1, Len(s) - 1)) ELSE s

\* String.prototype.trim
Trim(s) == TrimEnd(TrimStart(s))

\* JavaScript truthiness of a string-or-null
Truthy(s) == s # Null /\ s # << >>

\* `x || ''`
OrEmpty(s) == IF Truthy(s) THEN s ELSE << >>

Blank(s) == s # Null /\ Trim(s) = << >>

\* ---------------------------------------------------------------- variants
LoraDefineExts ==
    { "DoubleClickBrowser", "FolderBrowserV3", "LoraDefineDialog",
      "FolderBrowserAPI", "ButtonHandler", "FileBrowser", "FileBrowserTimer",
      "FileBrowserPoll" }

LoadImagesExts == { "LoadImagesButton", "LoadImagesDialog", "BCFolderBrowser" }

Exts == LoraDefineExts \cup LoadImagesExts

\* the attachments whose handlers test app.FileFolderAPI, and those that
\* test 'showDirectoryPicker' in window; the others never read them
ApiExts ==
    { "DoubleClickBrowser", "FolderBrowserAPI", "ButtonHandler", "FileBrowser",
      "FileBrowserTimer", "FileBrowserPoll" }

PickerExts == Exts \ ApiExts

\* the widget name each attachment looks up
TargetName(e) ==
    IF e \in LoraDefineExts THEN "project_base_path" ELSE "input_path"

Text(n) == [type |-> "text", name |-> n]
Button(n) == [type |-> "button", name |-> n]

\* widget lists the host may have built when onNodeCreated runs; only the
\* node definition BearCave.ButtonHandler is written for declares a
\* browse_button widget
WidgetLists(e) ==
    { << >>,
      << Text("seed") >>,
      << Text(TargetName(e)) >>,
      << Text("seed"), Text(TargetName(e)) >> }
    \cup (IF e = "ButtonHandler"
          THEN { << Button("browse_button") >>,
                 << Text(TargetName(e)), Button("browse_button") >> }
          ELSE { })

\* Array.prototype.find(w => w.name === n) on a defined list
Find(ws, n) == \E i \in 1..Len(ws) : ws[i].name = n

\* a lookup that matches whatever widget comes first
HasTarget_anyWidget == hasWidgets /\ widgets # << >>

HasTarget == hasWidgets /\ Find(widgets, TargetName(ext))

ButtonCount(ws) == Cardinality({ i \in 1..Len(ws) : ws[i].type = "button" })

\* ------------------------------------------------------------ step records
NoCalls == << >>

Idle(op) ==
    [ op        |-> op,
      attach    |-> FALSE,    \* the handler ran the attachment (widget lookup)
      trigger   |-> FALSE,    \* a trigger surface was activated
      gap       |-> -1,       \* ms since the previous click on the widget
                              \* (second node: since the handler before)
      opened    |-> 0,        \* folder-choice flows opened by this handler
      prompt    |-> FALSE,    \* prompt() was shown
      entry     |-> Null,     \* what the user entered (Null: nothing)
      confirm   |-> FALSE,    \* the user explicitly confirmed an entry
      dismiss   |-> "none",   \* how the user dismissed the surface
      wrote     |-> FALSE,    \* the handler assigned widget.value
      changed   |-> FALSE,    \* widget.value differs from before the handler
      kept      |-> TRUE,     \* widget.value is what it was when the
                              \* interaction this handler ends began
      calls     |-> NoCalls,  \* invocations of the pre-existing callback
      threw     |-> FALSE,    \* the handler raised an error
      diag      |-> FALSE,    \* console.error about the missing widget
      dirty     |-> 0,        \* setDirtyCanvas calls
      apiOpens  |-> 0,        \* FileFolderAPI.open(widget, 'folder') calls
      alert     |-> FALSE,    \* alert() or notification shown
      offered   |-> FALSE,    \* free-text entry was offered
      dlg       |-> 0,        \* the dialog whose control the user operated
      again     |-> FALSE,    \* a dialog's callback was invoked once more
      after     |-> "",       \* the handler that ran before (second node)
      hostOpts  |-> << >>,    \* menuOptions as the host passed it
      prevHook  |-> "none",   \* the getExtraMenuOptions installed before
      prevRuns  |-> 0,        \* calls of the onNodeCreated installed before
      ret       |-> "undefined",   \* what the wrapped onNodeCreated returned
      polls     |-> 0,        \* consecutive waitForAPI firings so far, mod 2
      before    |-> << >> ]   \* node.widgets before organize*Node ran

\* the step record of a handler that may assign widget.value: nv is the
\* value afterwards, start the value when the interaction began
Assigned(st, did, nv, start) ==
    [st EXCEPT !.wrote = did, !.changed = (nv # value), !.kept = (nv = start)]

\* the step record of a handler that runs the attachment
Attach(op) == [Idle(op) EXCEPT !.attach = TRUE]

\* the step record of an activated trigger
Trigger(op) == [Idle(op) EXCEPT !.trigger = TRUE]

Call(arg, cause) == [arg |-> arg, cause |-> cause]

\* originalCallback / widget.callback invoked, if the widget has one
Invoke(arg, cause) == IF origCb THEN << Call(arg, cause) >> ELSE NoCalls

NoPicker == [owner |-> "none", dlg |-> 0, arg |-> << >>, valAtStart |-> << >>]

\* a commit to the widget: the path written, the callbacks it invoked, and
\* the commit before it
NoCommit == [path |-> Null, ncalls |-> 0, same |-> FALSE, prevCalls |-> 0]

Commit(path, calls) ==
    [path |-> path, ncalls |-> Len(calls),
     same |-> (path = commits.path), prevCalls |-> commits.ncalls]

Remember(c) == c

\* the second node before the host created it; `n' counts the clicks on its
\* widget
NoOther ==
    [created |-> FALSE, timer |-> FALSE, hooked |-> FALSE,
     lastClickTime |-> 0, n |-> 0, value |-> << >>]

\* -------------------------------------------------------------------- Init
\* before the host has offered any node type to beforeRegisterNodeDef
NoRegistry ==
    [ offered |-> {},      \* node type names passed to beforeRegisterNodeDef
      wrapped |-> {},      \* those whose prototype.onNodeCreated was replaced
      class   |-> "none",  \* the node type the node was created from
      mouse   |-> << >>,   \* per widget: .mouse is the attachment's wrapper
      vals    |-> << >> ]  \* .value of the widgets other than the target

\* no click was delivered to the widget yet
NoRun ==
    [ n      |-> 0,    \* clicks in the run
      opened |-> 0,    \* times the folder-choice flow was opened in the run
      at     |-> 0 ]   \* Date.now() of the last click of the run

Init ==
    /\ ext \in Exts
    /\ hasWidgets \in BOOLEAN
    /\ widgets \in (IF hasWidgets THEN WidgetLists(ext) ELSE { << >> })
    /\ value \in { << >>, << "a", "a" >> }
    /\ origCb \in BOOLEAN
    /\ created = "new"
    /\ timers = {}
    /\ hooked = {}
    /\ domBtn = FALSE
    /\ lastClickTime = 0
    /\ now = Epoch
    /\ clicks = 0
    /\ run = NoRun
    /\ apiAvail \in (IF ext \in ApiExts THEN BOOLEAN ELSE {FALSE})
    /\ pickerAvail \in (IF ext \in PickerExts THEN BOOLEAN ELSE {FALSE})
    /\ dialogs = << >>
    /\ docKeydown = 0
    /\ picker = NoPicker
    /\ menu = << >>
    /\ commits = NoCommit
    /\ other = NoOther
    /\ groups = "idle"
    /\ registry = NoRegistry
    /\ registered = 1
    /\ step = Idle("init")

settings == << ext, origCb, pickerAvail >>

\* what no handler of the attachments writes on the first node: the
\* settings, the second node, whose closures are its own, the UI-groups
\* timer, the node types and the widgets other than the target, and the
\* number of registrations, which only BCFolderBrowser's mouse wrapper raises
fixed == << settings, other, groups, registry, registered >>
clockVars == << lastClickTime, now, clicks, run >>
dlgVars == << dialogs, docKeydown, picker >>
nodeVars == << hasWidgets, widgets, created, timers, hooked, domBtn >>

\* --------------------------------------------------- node creation hooks
\* The node type had an onNodeCreated before the extension wrapped it; it
\* returns "result".  What the wrapper hands back to the host: the BC_LOAD_IMAGES
\* button wrapper and the BCFolderBrowser wrapper call the previous hook as a
\* statement and have no return.
Returns(e) ==
    IF e \in { "LoadImagesButton", "BCFolderBrowser" } THEN "undefined"
    ELSE "result"

\* `const result = onNodeCreated?.apply(this, arguments)` as the first
\* statement, `return result` as the last
Wrapped(st, e) == [st EXCEPT !.prevRuns = 1, !.ret = Returns(e)]

\* A wrapped onNodeCreated that only schedules its attachment timer.
Schedule(e, t) ==
    /\ ext = e /\ created = "new"
    /\ created' = "ok"
    /\ timers' = timers \cup {t}
    /\ step' = Wrapped(Idle("onNodeCreated"), e)
    /\ UNCHANGED << fixed, clockVars, dlgVars, hasWidgets, widgets, hooked,
                    domBtn, value, apiAvail, menu, commits >>

\* A wrapped onNodeCreated that looks the widget up at once, tolerating an
\* undefined list (`this.widgets || []`, `this.widgets?.find`), and replaces
\* handler h of the widget when it is there.
HookNow(e, h) ==
    /\ ext = e /\ created = "new"
    /\ created' = "ok"
    /\ hooked' = IF HasTarget THEN hooked \cup {h} ELSE hooked
    /\ step' = Wrapped(Attach("onNodeCreated"), e)
    /\ UNCHANGED << fixed, clockVars, dlgVars, hasWidgets, widgets, timers,
                    domBtn, value, apiAvail, menu, commits >>

\* node.addWidget("button", label, null, callback)
AddButton(label) ==
    /\ hasWidgets' = TRUE
    /\ widgets' = Append(widgets, Button(label))

DoubleClickBrowser_onNodeCreated == Schedule("DoubleClickBrowser", "attach")

\* the 100 ms timer of BearCave.DoubleClickBrowser
DoubleClickBrowser_timer ==
    /\ ext = "DoubleClickBrowser" /\ "attach" \in timers
    /\ timers' = timers \ {"attach"}
    /\ IF ~hasWidgets
       THEN \* this.widgets.find on undefined: TypeError
            /\ step' = [Attach("timer") EXCEPT !.threw = TRUE]
            /\ UNCHANGED << hooked, lastClickTime >>
       ELSE IF HasTarget
       THEN /\ hooked' = hooked \cup {"callback"}
            /\ lastClickTime' = 0
            /\ step' = Attach("timer")
       ELSE /\ step' = [Attach("timer") EXCEPT !.diag = TRUE]
            /\ UNCHANGED << hooked, lastClickTime >>
    /\ UNCHANGED << fixed, dlgVars, hasWidgets, widgets, created, domBtn, now,
                    clicks, run, value, apiAvail, menu, commits >>

FolderBrowserV3_onNodeCreated == HookNow("FolderBrowserV3", "callback")

LoadImagesButton_onNodeCreated == HookNow("LoadImagesButton", "computeSize")

LoraDefineDialog_onNodeCreated == HookNow("LoraDefineDialog", "mouse")

LoadImagesDialog_onNodeCreated == HookNow("LoadImagesDialog", "mouse")

BCFolderBrowser_onNodeCreated == HookNow("BCFolderBrowser", "mouse")

FolderBrowserAPI_onNodeCreated == Schedule("FolderBrowserAPI", "attach")

\* the 200 ms timer of BearCave.FolderBrowser (FileBrowserAPI variant)
FolderBrowserAPI_timer ==
    /\ ext = "FolderBrowserAPI" /\ "attach" \in timers
    /\ timers' = timers \ {"attach"}
    /\ IF HasTarget
       THEN /\ AddButton("Browse Folder")
            /\ step' = [Attach("timer") EXCEPT !.dirty = 1]
       ELSE /\ step' = [Attach("timer") EXCEPT !.diag = TRUE]
            /\ UNCHANGED << hasWidgets, widgets >>
    /\ UNCHANGED << fixed, clockVars, dlgVars, created, hooked, domBtn, value,
                    apiAvail, menu, commits >>

ButtonHandler_onNodeCreated == Schedule("ButtonHandler", "attach")

\* the 100 ms timer of BearCave.ButtonHandler
ButtonHandler_timer ==
    /\ ext = "ButtonHandler" /\ "attach" \in timers
    /\ timers' = timers \ {"attach"}
    /\ IF ~hasWidgets
       THEN /\ step' = [Attach("timer") EXCEPT !.threw = TRUE]
            /\ UNCHANGED hooked
       ELSE /\ hooked' = IF Find(widgets, "browse_button") /\ HasTarget
                         THEN hooked \cup {"browse_button"} ELSE hooked
            /\ step' = Attach("timer")
    /\ UNCHANGED << fixed, clockVars, dlgVars, hasWidgets, widgets, created,
                    domBtn, value, apiAvail, menu, commits >>

\* BearCave.BC_LORA_DEFINE.FileBrowser, attaching inside onNodeCreated
FileBrowser_onNodeCreated ==
    /\ ext = "FileBrowser" /\ created = "new"
    /\ IF ~hasWidgets
       THEN /\ created' = "threw"
            /\ step' = [Attach("onNodeCreated") EXCEPT !.threw = TRUE,
                                                       !.prevRuns = 1]
            /\ UNCHANGED << hasWidgets, widgets >>
       ELSE IF HasTarget
       THEN /\ created' = "ok"
            /\ AddButton("Browse Project Folder")
            /\ step' = Wrapped(Attach("onNodeCreated"), ext)
       ELSE /\ created' = "ok"
            /\ step' = [Wrapped(Attach("onNodeCreated"), ext)
                          EXCEPT !.diag = TRUE]
            /\ UNCHANGED << hasWidgets, widgets >>
    /\ UNCHANGED << fixed, clockVars, dlgVars, timers, hooked, domBtn, value,
                    apiAvail, menu, commits >>

FileBrowserTimer_onNodeCreated == Schedule("FileBrowserTimer", "attach")

\* the 100 ms timer of BearCave.BC_LORA_DEFINE.FileBrowser
FileBrowserTimer_timer ==
    /\ ext = "FileBrowserTimer" /\ "attach" \in timers
    /\ timers' = timers \ {"attach"}
    /\ IF ~hasWidgets
       THEN /\ step' = [Attach("timer") EXCEPT !.threw = TRUE]
            /\ UNCHANGED << hasWidgets, widgets >>
       ELSE IF HasTarget
       THEN /\ AddButton("Set Project Path")
            /\ step' = Attach("timer")
       ELSE /\ step' = [Attach("timer") EXCEPT !.diag = TRUE]
            /\ UNCHANGED << hasWidgets, widgets >>
    /\ UNCHANGED << fixed, clockVars, dlgVars, created, hooked, domBtn, value,
                    apiAvail, menu, commits >>

FileBrowserPoll_onNodeCreated == Schedule("FileBrowserPoll", "poll")

\* waitForAPI: attach when the API is there, else poll again in 1000 ms
\* a poll that re-armed itself also after finding the API
Found_rearmed(ts) == ts

\* the pending timers after the poll that found the API: the callback has
\* run and the `if (api)` branch holds no setTimeout
Found(ts) == ts \ {"poll"}

waitForAPI ==
    /\ ext = "FileBrowserPoll" /\ "poll" \in timers
    /\ IF ~apiAvail
       THEN /\ timers' = timers
            /\ step' = [Idle("waitForAPI") EXCEPT
                          !.polls = IF step.op = "waitForAPI"
                                    THEN 1 - step.polls ELSE 1]
            /\ UNCHANGED << hasWidgets, widgets >>
       ELSE /\ timers' = Found(timers)
            /\ IF ~hasWidgets
               THEN /\ step' = [Attach("waitForAPI") EXCEPT !.threw = TRUE]
                    /\ UNCHANGED << hasWidgets, widgets >>
               ELSE IF HasTarget
               THEN /\ AddButton("Set Project Path")
                    /\ step' = [Attach("waitForAPI") EXCEPT !.dirty = 1]
               ELSE /\ step' = Attach("waitForAPI")
                    /\ UNCHANGED << hasWidgets, widgets >>
    /\ UNCHANGED << fixed, clockVars, dlgVars, created, hooked, domBtn, value,
                    apiAvail, menu, commits >>

\* the FileBrowserAPI extension finishes loading and defines app.FileFolderAPI
ApiLoads ==
    /\ ext \in ApiExts /\ ~apiAvail
    /\ apiAvail' = TRUE
    /\ step' = Idle("apiLoads")
    /\ UNCHANGED << fixed, clockVars, dlgVars, nodeVars, value, menu, commits >>

\* ------------------------------------------------------ widget click hooks
\* The native directory picker is modal: no user input reaches the page
\* while its promise is pending.
UserCanAct == created = "ok" /\ picker.owner = "none"

\* gaps between two Date.now() readings
Deltas == { 0, DoubleClickMs - 1, DoubleClickMs }

\* the value argument the host passes to widget.callback
ClickArgs == { value, << "a" >> }

\* the threshold compared with `<=`
IsDoubleClick_inclusive(t, last) == t - last <= DoubleClickMs

\* `now - lastClickTime < 300`
IsDoubleClick(t, last) == t - last < DoubleClickMs

\* the detector cleared after a recognised double-click
StoredTime_reset(t, dbl) == IF dbl THEN 0 ELSE t

\* `lastClickTime = now;` after the if, on every click
StoredTime(t, dbl) == t

\* the run of clicks after a click at time t that did or did not open the
\* flow: a click less than 300 ms after the previous one continues the run
Clicked(t, dbl) ==
    LET o == IF dbl THEN 1 ELSE 0
    IN  IF run.n > 0 /\ t - run.at < DoubleClickMs
        THEN [n |-> run.n + 1, opened |-> run.opened + o, at |-> t]
        ELSE [n |-> 1, opened |-> o, at |-> t]

\* the callback invoked outside the branch that wrote the value
CommitCalls_always(committed, arg) == Invoke(arg, "commit")

\* `if (originalCallback) originalCallback.apply(this, args)` inside the
\* branch that wrote the value
CommitCalls(committed, arg) ==
    IF committed THEN Invoke(arg, "commit") ELSE NoCalls

\* `widget.value = path || ''` without the null test
PromptValue_unguarded(ans, cur) == OrEmpty(ans)

\* `if (path !== null) widget.value = path`
PromptValue(ans, cur) == IF ans # Null THEN ans ELSE cur

\* `if (path) widget.value = path`
PickedValue(ans, cur) == IF Truthy(ans) THEN ans ELSE cur

\* showManualInput: `newPath !== null && newPath.trim() !== ''`
ManualValue(ans, cur) ==
    IF ans # Null /\ Trim(ans) # << >> THEN Trim(ans) ELSE cur

Dismissal(ans) == IF ans = Null THEN "null" ELSE "none"

\* projectPathWidget.callback of BearCave.DoubleClickBrowser
projectPathWidget_callback(d, v, ans) ==
    /\ ext = "DoubleClickBrowser" /\ "callback" \in hooked
    /\ UserCanAct /\ clicks + other.n < MaxClicks
    /\ LET t == now + d
           dbl == IsDoubleClick(t, lastClickTime)
           ask == dbl /\ ~apiAvail
       IN  /\ ans \in (IF ask THEN Answers ELSE {Null})
           /\ now' = t
           /\ lastClickTime' = StoredTime(t, dbl)
           /\ clicks' = clicks + 1
           /\ run' = Clicked(t, dbl)
           /\ value' = IF ask THEN PromptValue(ans, value) ELSE value
           /\ commits' = IF ask /\ ans # Null
                         THEN Remember(Commit(ans, NoCalls)) ELSE commits
           /\ step' = Assigned(
                        [Idle("click") EXCEPT
                           !.trigger = dbl,
                           !.gap = IF clicks = 0 THEN -1
                                   ELSE t - lastClickTime,
                           !.opened = IF dbl THEN 1 ELSE 0,
                           !.apiOpens = IF dbl /\ apiAvail THEN 1 ELSE 0,
                           !.prompt = ask,
                           !.offered = ask,
                           !.entry = ans,
                           !.confirm = ask /\ ans # Null,
                           !.dismiss = IF ask THEN Dismissal(ans) ELSE "none",
                           !.calls = Invoke(v, "click")],
                        ask /\ ans # Null,
                        IF ask THEN PromptValue(ans, value) ELSE value, value)
    /\ UNCHANGED << fixed, dlgVars, nodeVars, apiAvail, menu >>

\* widget.callback of BearCave.FolderBrowser v3
widget_callback(d, v, ans) ==
    /\ ext = "FolderBrowserV3" /\ "callback" \in hooked
    /\ UserCanAct /\ clicks + other.n < MaxClicks
    /\ LET t == now + d
           dbl == IsDoubleClick(t, lastClickTime)
           pick == dbl /\ pickerAvail
           ask == dbl /\ ~pickerAvail
           committed == ask /\ ans # Null
           commitCalls == CommitCalls(committed, v)
       IN  /\ ans \in (IF ask THEN Answers ELSE {Null})
           /\ now' = t
           /\ lastClickTime' = StoredTime(t, dbl)
           /\ clicks' = clicks + 1
           /\ run' = Clicked(t, dbl)
           /\ picker' = IF pick
                        THEN [owner |-> "callback", dlg |-> 0, arg |-> v,
                              valAtStart |-> value]
                        ELSE picker
           /\ value' = IF ask THEN PromptValue(ans, value) ELSE value
           /\ commits' = IF committed
                         THEN Remember(Commit(ans, commitCalls)) ELSE commits
           /\ step' = Assigned(
                        [Idle("click") EXCEPT
                           !.trigger = dbl,
                           !.gap = IF clicks = 0 THEN -1
                                   ELSE t - lastClickTime,
                           !.opened = IF dbl THEN 1 ELSE 0,
                           !.prompt = ask,
                           !.offered = ask,
                           !.entry = ans,
                           !.confirm = committed,
                           !.dismiss = IF ask THEN Dismissal(ans) ELSE "none",
                           !.calls = commitCalls \o Invoke(v, "click")],
                        committed,
                        IF ask THEN PromptValue(ans, value) ELSE value, value)
    /\ UNCHANGED << fixed, nodeVars, dialogs, docKeydown, apiAvail, menu >>

\* showDirectoryPicker().then(...) of the v3 callback: prompt for the full path
picker_then(ans) ==
    /\ picker.owner = "callback"
    /\ ans \in Answers
    /\ picker' = NoPicker
    /\ LET committed == Truthy(ans)
           commitCalls == CommitCalls(committed, picker.arg)
       IN  /\ value' = PickedValue(ans, value)
           /\ commits' = IF committed
                         THEN Remember(Commit(ans, commitCalls)) ELSE commits
           /\ step' = Assigned(
                        [Idle("picker.then") EXCEPT
                           !.prompt = TRUE,
                           !.offered = TRUE,
                           !.entry = ans,
                           !.confirm = ans # Null,
                           !.dismiss = Dismissal(ans),
                           !.calls = commitCalls],
                        committed, PickedValue(ans, value), picker.valAtStart)
    /\ UNCHANGED << fixed, clockVars, nodeVars, dialogs, docKeydown, apiAvail,
                    menu >>

\* showDirectoryPicker().catch(...) of the v3 callback
picker_catch(err) ==
    /\ picker.owner = "callback"
    /\ err \in {"AbortError", "SecurityError"}
    /\ picker' = NoPicker
    /\ step' = Assigned(
                 [Idle("picker.catch") EXCEPT
                    !.dismiss = IF err = "AbortError" THEN "abort" ELSE "reject"],
                 FALSE, value, picker.valAtStart)
    /\ UNCHANGED << fixed, clockVars, nodeVars, dialogs, docKeydown, apiAvail,
                    menu, value, commits >>

\* ----------------------------------------------------- the second node
\* The two timestamp detectors run once per created node: each node's
\* handler closes over its own `let lastClickTime = 0`.
DetectorExts == { "DoubleClickBrowser", "FolderBrowserV3" }

\* what the user answers to the second node's prompt
OtherPaths == { Null, << "a" >> }

\* one detector variable shared by all nodes
OtherLast_shared == lastClickTime

\* the lastClickTime the second node's handler closes over
OtherLast == other.lastClickTime

otherFrame ==
    << settings, nodeVars, dialogs, docKeydown, lastClickTime, clicks, run,
       value, apiAvail, menu, commits, groups, registry, registered >>

\* onNodeCreated of the second node: v3 wraps the callback at once, the
\* DoubleClickBrowser schedules its timer
other_onNodeCreated ==
    /\ ext \in DetectorExts /\ ~other.created
    /\ other' = [other EXCEPT !.created = TRUE,
                              !.timer = (ext = "DoubleClickBrowser"),
                              !.hooked = (ext = "FolderBrowserV3")]
    /\ step' = Wrapped(Idle("onNodeCreatedB"), ext)
    /\ UNCHANGED << otherFrame, now, picker >>

\* the 100 ms timer of the second node
other_timer ==
    /\ ext = "DoubleClickBrowser" /\ other.timer
    /\ other' = [other EXCEPT !.timer = FALSE, !.hooked = TRUE,
                              !.lastClickTime = 0]
    /\ step' = Idle("timerB")
    /\ UNCHANGED << otherFrame, now, picker >>

\* the wrapped callback of the second node's widget
other_callback(d, ans) ==
    /\ ext \in DetectorExts /\ other.hooked /\ picker.owner = "none"
    /\ clicks + other.n < MaxClicks
    /\ LET t == now + d
           dbl == IsDoubleClick(t, OtherLast)
           native == dbl /\ (IF ext = "DoubleClickBrowser" THEN apiAvail
                                                           ELSE pickerAvail)
           ask == dbl /\ ~native
           committed == ask /\ ans # Null
       IN  /\ ans \in (IF ask THEN OtherPaths ELSE {Null})
           /\ now' = t
           /\ other' = [other EXCEPT
                           !.lastClickTime = t,
                           !.n = @ + 1,
                           !.value = IF ask THEN PromptValue(ans, @) ELSE @]
           /\ picker' = IF native /\ ext = "FolderBrowserV3"
                        THEN [owner |-> "other", dlg |-> 0,
                              arg |-> other.value, valAtStart |-> other.value]
                        ELSE picker
           /\ step' = [Idle("clickB") EXCEPT
                         !.trigger = dbl,
                         !.gap = d,
                         !.opened = IF dbl THEN 1 ELSE 0,
                         !.apiOpens = IF native /\ ext = "DoubleClickBrowser"
                                      THEN 1 ELSE 0,
                         !.prompt = ask,
                         !.offered = ask,
                         !.calls = (IF ext = "FolderBrowserV3"
                                    THEN CommitCalls(committed, other.value)
                                    ELSE NoCalls)
                                   \o Invoke(other.value, "click"),
                         !.after = step.op]
    /\ UNCHANGED otherFrame

\* showDirectoryPicker().then(...) of the second node's v3 callback
other_picker_then(ans) ==
    /\ picker.owner = "other"
    /\ ans \in OtherPaths
    /\ picker' = NoPicker
    /\ other' = [other EXCEPT !.value = PickedValue(ans, @)]
    /\ step' = [Idle("picker.thenB") EXCEPT
                  !.prompt = TRUE,
                  !.offered = TRUE,
                  !.calls = CommitCalls(Truthy(ans), picker.arg)]
    /\ UNCHANGED << otherFrame, now >>

\* showDirectoryPicker().catch(...) of the second node's v3 callback
other_picker_catch ==
    /\ picker.owner = "other"
    /\ picker' = NoPicker
    /\ step' = Idle("picker.catchB")
    /\ UNCHANGED << otherFrame, now, other >>

\* ------------------------------------------- buttons, node double-click, menu
HasButton(label) ==
    hasWidgets /\ \E i \in 1..Len(widgets) : widgets[i] = Button(label)

\* app.FileFolderAPI.open(projectPathWidget, 'folder')
OpenAPI(op) ==
    /\ step' = [Trigger(op) EXCEPT !.opened = 1, !.apiOpens = 1]
    /\ UNCHANGED << value, commits >>

\* alert("FileBrowserAPI not found ...")
Alert(op) ==
    /\ step' = [Trigger(op) EXCEPT !.alert = TRUE]
    /\ UNCHANGED << value, commits >>

\* showManualInput(widget): prompt, trim, write
showManualInput(op, ans) ==
    /\ value' = ManualValue(ans, value)
    /\ commits' = IF ans # Null /\ Trim(ans) # << >>
                  THEN Remember(Commit(Trim(ans), NoCalls)) ELSE commits
    /\ step' = Assigned(
                 [Trigger(op) EXCEPT
                    !.opened = 1,
                    !.prompt = TRUE,
                    !.offered = TRUE,
                    !.entry = ans,
                    !.confirm = ans # Null,
                    !.dismiss = Dismissal(ans)],
                 ans # Null /\ Trim(ans) # << >>,
                 ManualValue(ans, value), value)

\* FileFolderAPI when defined, else the manual prompt
ApiOrManual(op, ans) ==
    /\ ans \in (IF apiAvail THEN {Null} ELSE Answers)
    /\ IF apiAvail THEN OpenAPI(op) ELSE showManualInput(op, ans)

\* the alert shown without looking at app.FileFolderAPI
ApiOrAlert_alertOnly(op) == Alert(op)

\* FileFolderAPI when defined, else an alert
ApiOrAlert(op) == IF apiAvail THEN OpenAPI(op) ELSE Alert(op)

triggerFrame == << fixed, clockVars, dlgVars, nodeVars, apiAvail >>

\* callback of the "Browse Folder" button (FileBrowserAPI variant)
FolderBrowserAPI_button(ans) ==
    /\ ext = "FolderBrowserAPI" /\ UserCanAct
    /\ HasButton("Browse Folder")
    /\ ApiOrManual("button", ans)
    /\ UNCHANGED << triggerFrame, menu >>

\* the wrapped onDblClick (FileBrowserAPI variant)
FolderBrowserAPI_onDblClick(ans) ==
    /\ ext = "FolderBrowserAPI" /\ UserCanAct
    /\ IF HasTarget
       THEN ApiOrManual("onDblClick", ans)
       ELSE /\ ans = Null
            /\ step' = Idle("onDblClick")
            /\ UNCHANGED << value, commits >>
    /\ UNCHANGED << triggerFrame, menu >>

\* browseButton.callback installed by BearCave.ButtonHandler
ButtonHandler_button ==
    /\ ext = "ButtonHandler" /\ UserCanAct
    /\ "browse_button" \in hooked
    /\ ApiOrAlert("button")
    /\ UNCHANGED << triggerFrame, menu >>

\* callback of the "Browse Project Folder" button
FileBrowser_button ==
    /\ ext = "FileBrowser" /\ UserCanAct
    /\ HasButton("Browse Project Folder")
    /\ ApiOrAlert("button")
    /\ UNCHANGED << triggerFrame, menu >>

\* callback of the "Set Project Path" button (timer variant)
FileBrowserTimer_button ==
    /\ ext = "FileBrowserTimer" /\ UserCanAct
    /\ HasButton("Set Project Path")
    /\ ApiOrAlert("button")
    /\ UNCHANGED << triggerFrame, menu >>

\* callback of the "Set Project Path" button (polling variant): api.open
FileBrowserPoll_button ==
    /\ ext = "FileBrowserPoll" /\ UserCanAct
    /\ HasButton("Set Project Path")
    /\ OpenAPI("button")
    /\ UNCHANGED << triggerFrame, menu >>

\* extensions that wrap getExtraMenuOptions, and their entry's label
MenuExts ==
    { "FolderBrowserAPI", "FileBrowser", "FileBrowserTimer", "FileBrowserPoll" }

MenuLabel(e) ==
    IF e \in {"FolderBrowserAPI", "FileBrowser"}
    THEN "Browse Project Folder" ELSE "Set Project Path"

\* menuOptions as the host and the previous hook left it
HostMenus == { << >>, << "Properties" >> }

\* the entry put at the end of the list
Unshift_push(label, opts) == opts \o << label, "null" >>

\* menuOptions.unshift({content, callback}, null)
Unshift(label, opts) == << label, "null" >> \o opts

\* the getExtraMenuOptions that was on the prototype before the wrapper was
\* installed: none, one that prepends its own entry, one that appends it
PrevHooks == { "none", "unshift", "push" }

\* `getExtraMenuOptions?.apply(this, arguments)`: the previous hook works on
\* the same menuOptions array
PrevHook(prev, opts) ==
    IF prev = "unshift" THEN << "Prev" >> \o opts
    ELSE IF prev = "push" THEN Append(opts, "Prev")
    ELSE opts

\* the wrapped getExtraMenuOptions; only the FileBrowserAPI variant guards
\* the lookup with `?.`
getExtraMenuOptions(opts, prev) ==
    /\ ext \in MenuExts /\ UserCanAct
    /\ opts \in HostMenus /\ prev \in PrevHooks
    /\ LET left == PrevHook(prev, opts)
           did == [Idle("getExtraMenuOptions") EXCEPT
                     !.hostOpts = opts, !.prevHook = prev]
       IN  IF ~hasWidgets /\ ext # "FolderBrowserAPI"
           THEN /\ menu' = left
                /\ step' = [did EXCEPT !.threw = TRUE]
           ELSE /\ menu' = IF HasTarget THEN Unshift(MenuLabel(ext), left)
                                        ELSE left
                /\ step' = did
    /\ UNCHANGED << triggerFrame, value, commits >>

\* the callback of the contributed menu entry
menu_callback(ans) ==
    /\ ext \in MenuExts /\ UserCanAct
    /\ menu # << >> /\ menu[1] = MenuLabel(ext)
    /\ menu' = << >>
    /\ IF ext = "FolderBrowserAPI"
       THEN ApiOrManual("menu", ans)
       ELSE ans = Null /\ ApiOrAlert("menu")
    /\ UNCHANGED triggerFrame

\* ------------------------------------------------------------ overlay dialogs
\* A dialog is the overlay element with its input and buttons (identified by
\* its index), plus the closure that built it.  `handler' is the index of the
\* closure whose functions are the onclick/onkeypress of this dialog's
\* elements (0: none assigned); `elems' is the dialog whose elements this
\* dialog's closure looked up.  `fired' tells that the callback handed to
\* the builder has been invoked, `cancelled' that the closure's Cancel
\* handler removed the overlay.
DialogKind(e) ==
    IF e = "LoadImagesButton" THEN "createFolderBrowserDialog"
    ELSE IF e = "BCFolderBrowser" THEN "createFolderDialog"
    ELSE "openFolderDialog"

Attached(k) == k \in 1..Len(dialogs) /\ dialogs[k].attached

\* document.getElementById returns the first match in document order; the
\* overlays are appended to document.body in creation order
FirstAttached(j) ==
    IF \E k \in 1..Len(dialogs) : dialogs[k].attached
    THEN CHOOSE k \in 1..Len(dialogs) :
            /\ dialogs[k].attached
            /\ \A m \in 1..(k - 1) : ~dialogs[m].attached
    ELSE j

\* the dialog whose elements the closure of new dialog j gets hold of:
\* openFolderDialog uses document.getElementById, the other two builders use
\* their own element references / dialog.querySelector
Lookup(kind, j) == IF kind = "openFolderDialog" THEN FirstAttached(j) ELSE j

\* build the overlay, append it to document.body, assign the handlers
OpenDialog(kind) ==
    LET j == Len(dialogs) + 1
        f == Lookup(kind, j)
        new == [kind |-> kind, attached |-> TRUE, input |-> << >>,
                handler |-> 0, elems |-> f, fired |-> FALSE,
                cancelled |-> FALSE]
    IN  /\ dialogs' = [Append(dialogs, new) EXCEPT ![f].handler = j]
        /\ docKeydown' = IF kind = "createFolderDialog" THEN j ELSE docKeydown

\* setDirtyCanvas calls of the commit callback of each dialog attachment
CommitDirty(e) == IF e = "LoadImagesButton" THEN 0 ELSE 1

\* document.body.removeChild(overlay of dialog h); the element is dropped
Detach(ds, h) == [ds EXCEPT ![h].attached = FALSE, ![h].input = << >>]

\* `const browser = new BCFolderBrowser()` in the mouse wrapper: the
\* constructor runs init(), which runs setupNodeExtension(), which calls
\* app.registerExtension; the other dialog attachments call a plain function
NewBrowser(e) == IF e = "BCFolderBrowser" THEN 1 ELSE 0

MouseEvents == { "dblclick", "pointerdown2", "pointerdown1", "pointermove" }

\* `event.type === "dblclick" || (event.type === "pointerdown" && event.detail === 2)`
IsDblEvent(ev) == ev \in { "dblclick", "pointerdown2" }

\* widget.mouse as wrapped by the three dialog attachments
widget_mouse(ev) ==
    /\ ext \in { "LoraDefineDialog", "LoadImagesDialog", "BCFolderBrowser" }
    /\ "mouse" \in hooked /\ UserCanAct
    /\ ev \in MouseEvents
    /\ IF IsDblEvent(ev)
       THEN /\ Len(dialogs) < MaxDialogs
            /\ registered' = registered + NewBrowser(ext)
            /\ OpenDialog(DialogKind(ext))
            /\ step' = [Trigger("mouse") EXCEPT !.opened = 1, !.offered = TRUE]
       ELSE /\ step' = Idle("mouse")
            /\ UNCHANGED << dialogs, docKeydown, registered >>
    /\ UNCHANGED << settings, other, groups, registry, clockVars, nodeVars,
                    picker, apiAvail, menu, value, commits >>

\* the wrapped computeSize of the input_path widget schedules a 100 ms timer
pathWidget_computeSize ==
    /\ ext = "LoadImagesButton" /\ "computeSize" \in hooked
    /\ "domBtn" \notin timers
    /\ timers' = timers \cup {"domBtn"}
    /\ step' = Idle("computeSize")
    /\ UNCHANGED << fixed, clockVars, dlgVars, hasWidgets, widgets, created,
                    hooked, domBtn, apiAvail, menu, value, commits >>

\* that timer appends the browse button when the widget element exists
computeSize_timer(found) ==
    /\ ext = "LoadImagesButton" /\ "domBtn" \in timers
    /\ found \in BOOLEAN
    /\ timers' = timers \ {"domBtn"}
    /\ domBtn' = (domBtn \/ found)
    /\ step' = Idle("timer")
    /\ UNCHANGED << fixed, clockVars, dlgVars, hasWidgets, widgets, created,
                    hooked, apiAvail, menu, value, commits >>

\* browseBtn.onclick of the BC_LOAD_IMAGES button attachment
LoadImagesButton_onclick ==
    /\ ext = "LoadImagesButton" /\ domBtn /\ UserCanAct
    /\ Len(dialogs) < MaxDialogs
    /\ OpenDialog(DialogKind(ext))
    /\ step' = [Trigger("button") EXCEPT !.opened = 1, !.offered = TRUE]
    /\ UNCHANGED << fixed, clockVars, nodeVars, picker, apiAvail, menu, value,
                    commits >>

dialogFrame == << fixed, clockVars, nodeVars, apiAvail, menu >>

\* pathInput.value when OK or Enter is pressed: what the Browse handler put
\* there, or what the user typed over it
InputTexts(k) == Strings \cup { dialogs[k].input }

\* browseBtn.onclick of a dialog
browseBtn_onclick(k) ==
    /\ UserCanAct /\ Attached(k)
    /\ dialogs[k].handler # 0
    /\ IF pickerAvail
       THEN /\ picker' = [owner |-> "dialog", dlg |-> k, arg |-> << >>,
                          valAtStart |-> value]
            /\ step' = [Idle("browse") EXCEPT !.opened = 1]
       ELSE /\ step' = [Idle("browse") EXCEPT !.alert = TRUE]
            /\ UNCHANGED picker
    /\ UNCHANGED << dialogFrame, dialogs, docKeydown, value, commits >>

\* `pathInput.value = dirHandle.name` after the awaited picker resolved
browse_resolved(name) ==
    /\ picker.owner = "dialog"
    /\ name \in DirNames
    /\ picker' = NoPicker
    /\ dialogs' = [dialogs EXCEPT ![picker.dlg].input = name]
    /\ step' = Assigned(Idle("browse.resolved"), FALSE, value,
                        picker.valAtStart)
    /\ UNCHANGED << dialogFrame, docKeydown, value, commits >>

\* the catch block around the awaited picker
browse_rejected(err) ==
    /\ picker.owner = "dialog"
    /\ err \in {"AbortError", "SecurityError"}
    /\ picker' = NoPicker
    /\ step' = Assigned(
                 [Idle("browse.rejected") EXCEPT
                    !.alert = (err # "AbortError"),
                    !.dismiss = IF err = "AbortError" THEN "abort" ELSE "reject"],
                 FALSE, value, picker.valAtStart)
    /\ UNCHANGED << dialogFrame, dialogs, docKeydown, value, commits >>

\* okBtn.onclick as assigned to the OK button of dialog k.  The commit
\* callback writes the value and then calls the widget's own callback, which
\* is host code and may raise; the statements after it (setDirtyCanvas, then
\* removeChild in the OK handler) are skipped when it does.
RunOk(k, raw, raised, op) ==
    LET h == dialogs[k].handler
        path == Trim(raw)
        calls == Invoke(path, "commit")
    IN  IF h = 0
        THEN /\ ~raised
             /\ step' = [Idle(op) EXCEPT !.dlg = k, !.entry = raw,
                                         !.confirm = TRUE]
             /\ UNCHANGED << dialogs, value, commits >>
        ELSE IF path = << >>
        THEN /\ ~raised
             /\ step' = [Idle(op) EXCEPT !.dlg = k, !.entry = raw,
                                         !.confirm = TRUE, !.alert = TRUE]
             /\ UNCHANGED << dialogs, value, commits >>
        ELSE /\ raised => origCb
             /\ value' = path
             /\ commits' = Remember(Commit(path, calls))
             /\ dialogs' = [(IF ~raised /\ dialogs[h].attached
                             THEN Detach(dialogs, h) ELSE dialogs)
                            EXCEPT ![h].fired = TRUE]
             /\ step' = Assigned(
                          [Idle(op) EXCEPT
                             !.dlg = k,
                             !.again = dialogs[h].fired,
                             !.entry = raw,
                             !.confirm = TRUE,
                             !.calls = calls,
                             !.dirty = IF raised THEN 0 ELSE CommitDirty(ext),
                             !.threw = raised \/ ~dialogs[h].attached],
                          TRUE, path, value)

\* cancelBtn.onclick as assigned to the Cancel button of dialog k, reached
\* from a click or key press on dialog `on'
RunCancel(k, on, op, how) ==
    LET h == dialogs[k].handler
    IN  /\ dialogs' = IF h # 0 /\ dialogs[h].attached
                      THEN [Detach(dialogs, h) EXCEPT ![h].cancelled = TRUE]
                      ELSE dialogs
        /\ step' = [Idle(op) EXCEPT
                      !.dlg = on,
                      !.dismiss = how,
                      !.threw = (h # 0 /\ ~dialogs[h].attached)]
        /\ UNCHANGED << value, commits >>

okBtn_onclick(k, raw, raised) ==
    /\ UserCanAct /\ Attached(k)
    /\ raw \in InputTexts(k)
    /\ RunOk(k, raw, raised, "ok")
    /\ UNCHANGED << dialogFrame, docKeydown, picker >>

cancelBtn_onclick(k) ==
    /\ UserCanAct /\ Attached(k)
    /\ RunCancel(k, k, "cancel", "cancel")
    /\ UNCHANGED << dialogFrame, docKeydown, picker >>

\* pathInput.onkeypress with Enter: okBtn.click()
pathInput_onkeypress(k, raw, raised) ==
    /\ UserCanAct /\ Attached(k)
    /\ dialogs[k].handler # 0
    /\ raw \in InputTexts(k)
    /\ RunOk(k, raw, raised, "ok")
    /\ UNCHANGED << dialogFrame, docKeydown, picker >>

\* backdrop.onkeydown with Escape (openFolderDialog): cancelBtn.click() on
\* the Cancel button the closure of dialog j looked up
backdrop_onkeydown(j) ==
    /\ UserCanAct /\ Attached(j)
    /\ dialogs[j].kind = "openFolderDialog"
    /\ RunCancel(dialogs[j].elems, j, "escape", "escape")
    /\ UNCHANGED << dialogFrame, docKeydown, picker >>

\* document.onkeydown with Escape (BCFolderBrowser.createFolderDialog)
document_onkeydown ==
    /\ UserCanAct /\ docKeydown # 0
    /\ IF dialogs[docKeydown].attached
       THEN RunCancel(docKeydown, docKeydown, "escape", "escape")
       ELSE /\ step' = Idle("escape")
            /\ UNCHANGED << dialogs, value, commits >>
    /\ UNCHANGED << dialogFrame, docKeydown, picker >>

\* ------------------------------------------------------- TORTU.UIGroups
Label(n) == [type |-> "label", name |-> n]

projectWidgets ==
    << "base_model", "create_folders", "custom_base_model_path",
       "description", "overwrite_existing", "performance_mode",
       "project_base_path", "project_name" >>

subjectWidgets ==
    << "additional_tags", "age", "background", "camera_angle", "ethnicity",
       "gender", "lighting", "subject_name", "trigger_words" >>

pathWidgets == << "include_subfolders", "input_path" >>

filterWidgets == << "filter_type", "sort_method" >>

loadWidgets == << "load_limit", "start_index", "stop_index" >>

\* the section headers and the widget names listed under each, per node class
Sections(e) ==
    IF e \in LoraDefineExts
    THEN << [header |-> "Project Setup", names |-> projectWidgets],
            [header |-> "Subject Metadata", names |-> subjectWidgets] >>
    ELSE << [header |-> "Path Configuration", names |-> pathWidgets],
            [header |-> "Filter & Sorting", names |-> filterWidgets],
            [header |-> "Load Settings", names |-> loadWidgets] >>

\* widgetMap[n] after `node.widgets.forEach(w => widgetMap[w.name] = w)`: the
\* last widget of that name
widgetMap(ws, n) ==
    ws[CHOOSE i \in 1..Len(ws) :
           /\ ws[i].name = n
           /\ \A j \in (i + 1)..Len(ws) : ws[j].name # n]

\* `names.map(name => widgetMap[name]).filter(widget => widget)`
RECURSIVE Listed(_, _)
Listed(ws, names) ==
    IF names = << >> THEN << >>
    ELSE (IF Find(ws, Head(names)) THEN << widgetMap(ws, Head(names)) >>
          ELSE << >>) \o Listed(ws, Tail(names))

\* orderedWidgets: each header followed by the listed widgets of its group
RECURSIVE orderedWidgets(_, _)
orderedWidgets(ws, secs) ==
    IF secs = << >> THEN << >>
    ELSE << Label(Head(secs).header) >> \o Listed(ws, Head(secs).names)
         \o orderedWidgets(ws, Tail(secs))

\* widgets the host may have built for the node: a listed widget of the
\* first group, one of the second group, and one no group lists
Pool(e) ==
    IF e \in LoraDefineExts
    THEN { Text("project_base_path"), Text("age"), Text("project_name"),
           Text("seed") }
    ELSE { Text("input_path"), Text("sort_method"), Text("load_limit"),
           Text("seed") }

\* the host names each input of a node once
HostLists(e) ==
    { ws \in UNION { [1..n -> Pool(e)] : n \in 0..MaxWidgets } :
          \A i, j \in 1..Len(ws) : ws[i] = ws[j] => i = j }

groupsFrame ==
    << settings, other, registry, registered, clockVars, dlgVars, created,
       timers, hooked, domBtn,
       value, apiAvail, menu, commits >>

\* nodeCreated(node): one 100 ms timer per node of an organized class
UIGroups_nodeCreated ==
    /\ groups = "idle"
    /\ groups' = "timer"
    /\ step' = Idle("nodeCreated")
    /\ UNCHANGED << groupsFrame, hasWidgets, widgets >>

\* the timer: organizeLoraDefineNode(node) / organizeLoadImagesNode(node)
UIGroups_timer ==
    /\ groups = "timer"
    /\ groups' = "done"
    /\ widgets' = IF hasWidgets THEN orderedWidgets(widgets, Sections(ext))
                  ELSE widgets
    /\ step' = [Idle("organize") EXCEPT !.before = widgets]
    /\ UNCHANGED << groupsFrame, hasWidgets >>

\* ------------------------------- BearCave.BC_LORA_DEFINE.FolderBrowser
NodeTypeNames == { "BC_LORA_DEFINE", "BC_LOAD_IMAGES", "BC_SAVE_IMAGES" }

\* `return` for BC_LOAD_IMAGES, then `if (nodeData.name === "BC_LORA_DEFINE")`
WrapsType(name) == name # "BC_LOAD_IMAGES" /\ name = "BC_LORA_DEFINE"

\* `if (widget.name === "project_base_path")`
IsTargetWidget_any(w) == TRUE

IsTargetWidget(w) == w.name = "project_base_path"

\* `for (const widget of this.widgets || []) { if (...) { widget.mouse = ...;
\* break; } }`: the first matching widget gets the wrapper
WrapFirst(ws, ms) ==
    LET hits == { i \in 1..Len(ws) : IsTargetWidget(ws[i]) }
    IN  IF hits = {} THEN ms
        ELSE [ms EXCEPT ![CHOOSE i \in hits : \A j \in hits : i <= j] = TRUE]

registryFrame ==
    << settings, other, groups, registered, clockVars, dlgVars, hasWidgets,
       widgets,
       timers, domBtn, value, apiAvail, menu, commits >>

\* beforeRegisterNodeDef(nodeType, nodeData), once per node type
FolderBrowser_beforeRegisterNodeDef(name) ==
    /\ ext = "LoraDefineDialog"
    /\ name \notin registry.offered
    /\ registry' =
          [registry EXCEPT
              !.offered = @ \cup {name},
              !.wrapped = IF WrapsType(name) THEN @ \cup {name} ELSE @]
    /\ step' = Idle("beforeRegisterNodeDef")
    /\ UNCHANGED << registryFrame, created, hooked >>

\* the host creates the node from a registered type and runs the type's
\* onNodeCreated: the wrapper where the extension installed one
FolderBrowser_onNodeCreated(name) ==
    /\ ext = "LoraDefineDialog" /\ created = "new"
    /\ name \in registry.offered
    /\ created' = "ok"
    /\ IF name \in registry.wrapped
       THEN /\ registry' =
                 [registry EXCEPT
                     !.class = name,
                     !.mouse = IF hasWidgets THEN WrapFirst(widgets, @) ELSE @]
            /\ hooked' = IF registry'.mouse # registry.mouse
                         THEN hooked \cup {"mouse"} ELSE hooked
            /\ step' = Wrapped(Attach("onNodeCreated"), ext)
       ELSE /\ registry' = [registry EXCEPT !.class = name]
            /\ hooked' = hooked
            /\ step' = [Idle("onNodeCreated") EXCEPT !.prevRuns = 1,
                                                     !.ret = "result"]
    /\ UNCHANGED registryFrame

\* -------------------------------------------------------------------- Next
Next ==
    \/ DoubleClickBrowser_onNodeCreated
    \/ DoubleClickBrowser_timer
    \/ FolderBrowserV3_onNodeCreated
    \/ LoadImagesButton_onNodeCreated
    \/ LoraDefineDialog_onNodeCreated
    \/ LoadImagesDialog_onNodeCreated
    \/ BCFolderBrowser_onNodeCreated
    \/ FolderBrowserAPI_onNodeCreated
    \/ FolderBrowserAPI_timer
    \/ ButtonHandler_onNodeCreated
    \/ ButtonHandler_timer
    \/ FileBrowser_onNodeCreated
    \/ FileBrowserTimer_onNodeCreated
    \/ FileBrowserTimer_timer
    \/ FileBrowserPoll_onNodeCreated
    \/ waitForAPI
    \/ ApiLoads
    \/ \E d \in Deltas, v \in ClickArgs, ans \in Answers :
          projectPathWidget_callback(d, v, ans)
    \/ \E d \in Deltas, v \in ClickArgs, ans \in Answers :
          widget_callback(d, v, ans)
    \/ \E ans \in Answers : picker_then(ans)
    \/ \E err \in {"AbortError", "SecurityError"} : picker_catch(err)
    \/ \E ans \in Answers : FolderBrowserAPI_button(ans)
    \/ \E ans \in Answers : FolderBrowserAPI_onDblClick(ans)
    \/ ButtonHandler_button
    \/ FileBrowser_button
    \/ FileBrowserTimer_button
    \/ FileBrowserPoll_button
    \/ \E opts \in HostMenus, prev \in PrevHooks :
          getExtraMenuOptions(opts, prev)
    \/ \E ans \in Answers : menu_callback(ans)
    \/ \E ev \in MouseEvents : widget_mouse(ev)
    \/ pathWidget_computeSize
    \/ \E found \in BOOLEAN : computeSize_timer(found)
    \/ LoadImagesButton_onclick
    \/ \E k \in 1..Len(dialogs) : browseBtn_onclick(k)
    \/ \E name \in DirNames : browse_resolved(name)
    \/ \E err \in {"AbortError", "SecurityError"} : browse_rejected(err)
    \/ \E k \in 1..Len(dialogs), raw \in Strings \cup DirNames :
          okBtn_onclick(k, raw, FALSE)
    \/ \E k \in 1..Len(dialogs) : cancelBtn_onclick(k)
    \/ \E k \in 1..Len(dialogs), raw \in Strings \cup DirNames :
          pathInput_onkeypress(k, raw, FALSE)
    \/ \E j \in 1..Len(dialogs) : backdrop_onkeydown(j)
    \/ document_onkeydown

\* One node, one attachment, a host whose widget callbacks return normally.
Spec == Init /\ [][Next]_vars

\* The overlay dialogs on a node with the target widget, with a widget
\* callback that may raise.
InitDialogs ==
    /\ Init
    /\ ext \in { "LoadImagesButton", "LoraDefineDialog", "LoadImagesDialog",
                 "BCFolderBrowser" }
    /\ hasWidgets /\ widgets = << Text(TargetName(ext)) >>

NextDialogs ==
    \/ LoadImagesButton_onNodeCreated
    \/ LoraDefineDialog_onNodeCreated
    \/ LoadImagesDialog_onNodeCreated
    \/ BCFolderBrowser_onNodeCreated
    \/ \E ev \in MouseEvents : widget_mouse(ev)
    \/ pathWidget_computeSize
    \/ \E found \in BOOLEAN : computeSize_timer(found)
    \/ LoadImagesButton_onclick
    \/ \E k \in 1..Len(dialogs) : browseBtn_onclick(k)
    \/ \E name \in DirNames : browse_resolved(name)
    \/ \E err \in {"AbortError", "SecurityError"} : browse_rejected(err)
    \/ \E k \in 1..Len(dialogs), raw \in Strings \cup DirNames,
          raised \in BOOLEAN :
          okBtn_onclick(k, raw, raised)
    \/ \E k \in 1..Len(dialogs) : cancelBtn_onclick(k)
    \/ \E k \in 1..Len(dialogs), raw \in Strings \cup DirNames,
          raised \in BOOLEAN :
          pathInput_onkeypress(k, raw, raised)
    \/ \E j \in 1..Len(dialogs) : backdrop_onkeydown(j)
    \/ document_onkeydown

DialogSpec == InitDialogs /\ [][NextDialogs]_vars

\* Two nodes of BC_LORA_DEFINE, both with the target widget, under one of
\* the two timestamp detectors.
InitTwoNodes ==
    /\ Init
    /\ ext \in DetectorExts
    /\ hasWidgets /\ widgets = << Text(TargetName(ext)) >>

NextTwoNodes ==
    \/ DoubleClickBrowser_onNodeCreated
    \/ DoubleClickBrowser_timer
    \/ FolderBrowserV3_onNodeCreated
    \/ \E d \in Deltas, v \in ClickArgs, ans \in Answers :
          projectPathWidget_callback(d, v, ans)
    \/ \E d \in Deltas, v \in ClickArgs, ans \in Answers :
          widget_callback(d, v, ans)
    \/ \E ans \in Answers : picker_then(ans)
    \/ \E err \in {"AbortError", "SecurityError"} : picker_catch(err)
    \/ other_onNodeCreated
    \/ other_timer
    \/ \E d \in Deltas, ans \in OtherPaths : other_callback(d, ans)
    \/ \E ans \in OtherPaths : other_picker_then(ans)
    \/ other_picker_catch

TwoNodeSpec == InitTwoNodes /\ [][NextTwoNodes]_vars

\* A node of an organized class under TORTU.UIGroups together with an
\* attachment that adds a button widget or wraps a widget handler.
GroupExts == { "FileBrowser", "FileBrowserTimer", "LoadImagesDialog" }

InitGroups ==
    /\ ext \in GroupExts
    /\ hasWidgets \in BOOLEAN
    /\ widgets \in (IF hasWidgets THEN HostLists(ext) ELSE { << >> })
    /\ value = << >>
    /\ origCb = FALSE
    /\ created = "new"
    /\ timers = {}
    /\ hooked = {}
    /\ domBtn = FALSE
    /\ lastClickTime = 0
    /\ now = Epoch
    /\ clicks = 0
    /\ run = NoRun
    /\ apiAvail = FALSE
    /\ pickerAvail = FALSE
    /\ dialogs = << >>
    /\ docKeydown = 0
    /\ picker = NoPicker
    /\ menu = << >>
    /\ commits = NoCommit
    /\ other = NoOther
    /\ groups = "idle"
    /\ registry = NoRegistry
    /\ registered = 1
    /\ step = Idle("init")

NextGroups ==
    \/ UIGroups_nodeCreated
    \/ UIGroups_timer
    \/ FileBrowser_onNodeCreated
    \/ FileBrowserTimer_onNodeCreated
    \/ FileBrowserTimer_timer
    \/ LoadImagesDialog_onNodeCreated

GroupsSpec == InitGroups /\ [][NextGroups]_vars

\* The host offers its node types to BearCave.BC_LORA_DEFINE.FolderBrowser
\* and creates one node; the user then works the overlay dialog.
InitRegistry ==
    /\ ext = "LoraDefineDialog"
    /\ hasWidgets \in BOOLEAN
    /\ widgets \in (IF hasWidgets THEN HostLists(ext) ELSE { << >> })
    /\ registry \in
          { [NoRegistry EXCEPT !.mouse = [i \in 1..Len(widgets) |-> FALSE],
                               !.vals = v] :
              v \in [{ i \in 1..Len(widgets) : ~IsTargetWidget(widgets[i]) }
                        -> { << >>, << "a" >> }] }
    /\ value = << >>
    /\ origCb = FALSE
    /\ created = "new"
    /\ timers = {}
    /\ hooked = {}
    /\ domBtn = FALSE
    /\ lastClickTime = 0
    /\ now = Epoch
    /\ clicks = 0
    /\ run = NoRun
    /\ apiAvail = FALSE
    /\ pickerAvail = FALSE
    /\ dialogs = << >>
    /\ docKeydown = 0
    /\ picker = NoPicker
    /\ menu = << >>
    /\ commits = NoCommit
    /\ other = NoOther
    /\ groups = "idle"
    /\ registered = 1
    /\ step = Idle("init")

NextRegistry ==
    \/ \E name \in NodeTypeNames : FolderBrowser_beforeRegisterNodeDef(name)
    \/ \E name \in NodeTypeNames : FolderBrowser_onNodeCreated(name)
    \/ \E ev \in MouseEvents : widget_mouse(ev)
    \/ \E k \in 1..Len(dialogs), raw \in { << >> } \cup DirNames :
          okBtn_onclick(k, raw, FALSE)
    \/ \E k \in 1..Len(dialogs) : cancelBtn_onclick(k)

RegistrySpec == InitRegistry /\ [][NextRegistry]_vars

\* the callbacks handed to setTimeout: the event loop runs each of them once
\* its delay has passed
TimerFires ==
    \/ DoubleClickBrowser_timer
    \/ FolderBrowserAPI_timer
    \/ ButtonHandler_timer
    \/ FileBrowserTimer_timer
    \/ waitForAPI
    \/ \E found \in BOOLEAN : computeSize_timer(found)

\* Pending timers do fire; nothing obliges the user to act or the
\* FileBrowserAPI extension to load.
FairSpec == Spec /\ WF_vars(TimerFires)

\* The polling attachment alone: its timer does fire; nothing obliges the
\* FileBrowserAPI extension to load or the user to act.
InitPoll == Init /\ ext = "FileBrowserPoll"

NextPoll ==
    \/ FileBrowserPoll_onNodeCreated
    \/ waitForAPI
    \/ ApiLoads
    \/ FileBrowserPoll_button
    \/ \E opts \in HostMenus, prev \in PrevHooks :
          getExtraMenuOptions(opts, prev)
    \/ \E ans \in Answers : menu_callback(ans)

PollSpec == InitPoll /\ [][NextPoll]_vars /\ WF_vars(waitForAPI)

\* ==================================================================== claims
Blanks == { s \in Strings : Blank(s) }

CommitCaused(calls) == \E i \in 1..Len(calls) : calls[i].cause = "commit"

InvokedWith(calls, p) == \E i \in 1..Len(calls) : calls[i].arg = p

\* labels of the button widgets and menu entries the attachments add
ButtonLabels == { "Browse Folder", "Browse Project Folder", "Set Project Path" }

MenuLabels == { "Browse Project Folder", "Set Project Path", "null" }

C2_DoubleClickThreshold ==
    step.op = "click" =>
        IF clicks = 1 THEN step.opened = 0
        ELSE /\ step.gap < 300 => step.opened = 1
             /\ step.gap >= 300 => step.opened = 0

\* a second click 299 ms after the first one opened the flow
C2_Witness ==
    /\ step.op = "click" /\ clicks >= 2
    /\ step.gap = 299 /\ step.opened = 1

\* C3: an entry that is empty or whitespace only never changes widget.value,
\* on any manual-entry path.
C3_BlankEntryNeverChanges ==
    step.entry \in Blanks => ~step.changed

\* C4: when the user confirms a non-empty path p, then afterwards
\* widget.value = p and the pre-existing callback (if any) has been invoked
\* with p as its value argument, on every commit path.
C4_CommitWritesAndNotifies ==
    (step.confirm /\ step.entry # Null /\ step.entry # << >>
        /\ Trim(step.entry) = step.entry)
    => /\ value = step.entry
       /\ origCb => InvokedWith(step.calls, step.entry)

\* C5: committing the same path twice in a row leaves widget.value equal to
\* it and invokes the downstream callback once per commit.
C5_RecommitNotDeduplicated ==
    commits.same =>
        /\ value = commits.path
        /\ origCb => (commits.ncalls = 1 /\ commits.prevCalls = 1)

C7_MissingWidgetIsLogged ==
    (step.attach /\ hasWidgets /\ ~Find(widgets, TargetName(ext)))
    => step.diag

\* C8: when the folder-choice flow ends without a confirmation (capability
\* unavailable, picker aborted or rejected, prompt cancelled, dialog
\* cancelled), the flow invokes no downstream callback and widget.value is
\* unchanged.
C8_NoConfirmNoEffect ==
    (step.dismiss # "none" \/ (step.trigger /\ step.alert)) =>
        /\ ~CommitCaused(step.calls)
        /\ ~step.changed /\ ~step.wrote

\* a cancelled prompt in a click whose pass-through call still took place
C8_Witness ==
    /\ step.dismiss = "null"
    /\ step.calls # NoCalls
    /\ value # << >>

\* C9: no hook installed by the extensions throws, also on a node whose
\* widget list is undefined or empty.
C9_HooksNeverThrow ==
    step.op \in { "onNodeCreated", "timer", "waitForAPI", "onDblClick",
                  "getExtraMenuOptions" }
    => ~step.threw

\* C10: whenever a trigger is activated while the folder-choice capability
\* is unavailable, the user is offered free-text entry.
C10_FallbackOffersText ==
    (step.trigger /\ ~(IF ext \in ApiExts THEN apiAvail ELSE pickerAvail))
    => step.offered

\* C11: the wait/poll loop started by onNodeCreated terminates: from some
\* point on no attachment or poll timer is pending for the node, also when
\* the awaited API never becomes available.
C11_PollLoopTerminates ==
    <>[]("poll" \notin timers /\ "attach" \notin timers)

\* C12: every commit of a path to the widget calls setDirtyCanvas on the
\* node in the same handler that writes widget.value, on every commit path.
C12_CommitMarksDirty ==
    step.wrote => step.dirty >= 1

\* C13: the overlay of a folder dialog is detached from the document after
\* every exit: a confirming OK or Enter that committed a path (also when the
\* commit callback raised), Cancel, and Escape.
C13_OverlayRemovedOnExit ==
    (/\ step.dlg # 0
     /\ \/ step.dismiss \in {"cancel", "escape"}
        \/ (step.confirm /\ step.wrote))
    => ~dialogs[step.dlg].attached

\* C14: every opened folder dialog has exactly one outcome: its callback is
\* invoked once, with a non-blank string, or it is cancelled and its
\* callback is never invoked; OK on a blank input leaves the dialog open
\* and invokes nothing.
C14_DialogOutcome ==
    /\ ~step.again
    /\ \A d \in 1..Len(dialogs) : ~(dialogs[d].fired /\ dialogs[d].cancelled)
    /\ (step.dlg # 0 /\ step.wrote) => ~Blank(value)
    /\ (step.dlg # 0 /\ step.confirm /\ step.entry \in Blanks)
       => (dialogs[step.dlg].attached /\ ~step.wrote /\ step.calls = NoCalls)

\* C15: a string the user entered and confirmed is written to the widget
\* exactly as entered, without trimming or any other normalization (checked
\* for the entries that are not blank).
C15_NoNormalization ==
    (step.confirm /\ step.entry # Null /\ ~Blank(step.entry))
    => value = step.entry

C17_MenuEntryPrepended ==
    step.op = "getExtraMenuOptions" =>
        LET left == IF step.prevHook = "unshift"
                    THEN << "Prev" >> \o step.hostOpts
                    ELSE IF step.prevHook = "push"
                    THEN step.hostOpts \o << "Prev" >>
                    ELSE step.hostOpts
        IN  menu = IF hasWidgets /\ Find(widgets, TargetName(ext))
                   THEN << MenuLabel(ext), "null" >> \o left
                   ELSE left

C17_Witness ==
    /\ step.op = "getExtraMenuOptions" /\ step.prevHook = "unshift"
    /\ menu = << MenuLabel(ext), "null", "Prev", "Properties" >>

\* C18: every wrapped onNodeCreated calls the onNodeCreated installed before
\* it exactly once and returns that hook's return value to the host.
C18_WrapperComposes ==
    (step.op = "onNodeCreated" /\ ~step.threw)
    => (step.prevRuns = 1 /\ step.ret = "result")

\* C19: organize*Node only reorders: afterwards node.widgets holds every
\* widget it held before exactly as often as before, each section header
\* exactly once, and every listed widget follows its own group's header with
\* only widgets of that group in between.
C19_OrganizeOnlyReorders ==
    (step.op = "organize" /\ hasWidgets) =>
        LET was == step.before
            secs == Sections(ext)
            Count(ws, w) == Cardinality({ i \in 1..Len(ws) : ws[i] = w })
            Names(k) == { secs[k].names[i] : i \in 1..Len(secs[k].names) }
        IN  /\ \A i \in 1..Len(was) : Count(widgets, was[i]) = Count(was, was[i])
            /\ \A k \in 1..Len(secs) :
                  Count(widgets, [type |-> "label", name |-> secs[k].header]) = 1
            /\ Len(widgets) = Len(was) + Len(secs)
            /\ \A k \in 1..Len(secs), j \in 1..Len(widgets) :
                  (widgets[j].type # "label" /\ widgets[j].name \in Names(k)) =>
                      \E i \in 1..(j - 1) :
                          /\ widgets[i] = [type |-> "label",
                                           name |-> secs[k].header]
                          /\ \A m \in (i + 1)..j : widgets[m].name \in Names(k)

\* C20: BearCave.BC_LORA_DEFINE.FolderBrowser never replaces a prototype hook
\* of a node type other than BC_LORA_DEFINE (BC_LOAD_IMAGES in particular);
\* on a BC_LORA_DEFINE node with the project_base_path widget it replaces
\* that widget's mouse handler and no other widget's, and it never writes
\* the value of another widget or the widget list.
C20_OnlyLoraDefineTarget ==
    [][/\ \A n \in NodeTypeNames \ { "BC_LORA_DEFINE" } :
             n \notin registry'.wrapped
       /\ \A i \in 1..Len(widgets) :
             ~(widgets[i].name = "project_base_path")
                 => registry'.mouse[i] = registry.mouse[i]
       /\ registry'.vals = registry.vals
       /\ widgets' = widgets
       /\ (/\ step'.op = "onNodeCreated"
           /\ registry'.class = "BC_LORA_DEFINE"
           /\ HasTarget)
          => \E i \in 1..Len(widgets) :
                /\ widgets[i].name = "project_base_path"
                /\ registry'.mouse[i]
       /\ (step'.op = "onNodeCreated" /\ registry'.class # "BC_LORA_DEFINE")
          => (registry'.mouse = registry.mouse /\ hooked' = hooked)]_vars

\* a BC_LORA_DEFINE node with another widget before the target: BC_LOAD_IMAGES
\* was offered, only the target's mouse handler is the wrapper, and a path
\* picked in the dialog was written to the target
C20_Witness ==
    /\ registry.class = "BC_LORA_DEFINE"
    /\ "BC_LOAD_IMAGES" \in registry.offered
    /\ Len(widgets) >= 2 /\ widgets[1].name = "seed"
    /\ registry.vals[1] = << "a" >>
    /\ \A i \in 1..Len(widgets) :
          registry.mouse[i] <=> widgets[i].name = "project_base_path"
    /\ HasTarget
    /\ step.op = "ok" /\ step.wrote /\ value = << "a" >>

\* C21: the detector stores the time of every click and is never reset: in a
\* run of n >= 1 clicks on the widget with every consecutive gap below 300 ms
\* the folder-choice flow was opened n - 1 times, once for every click after
\* the first.
C21_RunOpensAllButFirst ==
    run.n >= 1 => run.opened = run.n - 1

\* three clicks less than 300 ms apart, the flow opened by the second and by
\* the third
C21_Witness ==
    /\ step.op = "click" /\ step.opened = 1
    /\ run.n = 3 /\ run.opened = 2

\* C22: a click on the wrapped widget callback invokes the pre-existing
\* callback exactly once, as the click's own call, whether or not the click
\* was recognised as a double-click and whether or not a path was committed.
C22_OriginalCalledOncePerClick ==
    (step.op = "click" /\ origCb) =>
        /\ Len(step.calls) = 1
        /\ step.calls[1].cause = "click"

\* C23: BCFolderBrowser is registered with the host exactly once: whatever
\* number of double-clicks reached the input_path widget, the attachment has
\* made one app.registerExtension call, and each double-click opened one
\* dialog.
C23_RegisteredOnce ==
    ext = "BCFolderBrowser" =>
        /\ registered = 1
        /\ (step.op = "mouse" /\ step.trigger) => step.opened = 1

\* C24: every open folder dialog controls itself: a click on a dialog's OK
\* button with non-blank input removes that dialog's own overlay and invokes
\* the callback passed when that dialog was opened, and a click on its Cancel
\* button removes that dialog's own overlay, also while another dialog is open.
C24_DialogControlsItself ==
    /\ (step.op = "ok" /\ step.dlg # 0 /\ ~Blank(step.entry)) =>
          /\ ~dialogs[step.dlg].attached
          /\ dialogs[step.dlg].fired
    /\ (step.op = "cancel" /\ step.dlg # 0) => ~dialogs[step.dlg].attached

\* C25: on a BC_LORA_DEFINE node with the target widget, a browse-button
\* attachment and the UI-groups extension, once node creation has returned
\* and every deferred timer has fired the appended browse button is still in
\* node.widgets.
C25_ButtonSurvivesOrganize ==
    (/\ ext \in { "FileBrowser", "FileBrowserTimer" }
     /\ created = "ok" /\ timers = {} /\ groups = "done"
     /\ HasTarget)
    => \E i \in 1..Len(widgets) :
          widgets[i].type = "button" /\ widgets[i].name \in ButtonLabels

\* C26: in the polling attachment, once the folder-choice API is available on
\* a created node that has the project_base_path widget, eventually and from
\* then on the node holds exactly one "Set Project Path" button and no poll
\* timer; the node never holds two such buttons, and the poll that finds the
\* API schedules no further poll.
C26_PollAppendsOneButton ==
    LET Buttons == Cardinality({ i \in 1..Len(widgets) :
                                    widgets[i] = Button("Set Project Path") })
    IN  /\ [](ext = "FileBrowserPoll" => Buttons <= 1)
        /\ []((ext = "FileBrowserPoll" /\ step.op = "waitForAPI" /\ step.attach)
                 => "poll" \notin timers)
        /\ [](( /\ ext = "FileBrowserPoll" /\ created = "ok"
                /\ apiAvail /\ HasTarget)
                 => <>[](Buttons = 1 /\ "poll" \notin timers))

\* the poll that found the API appended the button to a node that has the
\* target widget and left no poll timer behind
C26_Witness ==
    /\ ext = "FileBrowserPoll" /\ apiAvail
    /\ step.op = "waitForAPI" /\ step.attach
    /\ HasTarget /\ HasButton("Set Project Path")
    /\ "poll" \notin timers

\* C27: with app.FileFolderAPI available, every trigger of an API attachment
\* (browse button, double-click, node double-click, menu entry) hands the
\* widget to FileFolderAPI.open once, and the attachment neither writes
\* widget.value nor shows a prompt or an alert in that step.
C27_ApiTriggerOnlyOpens ==
    (step.trigger /\ ext \in ApiExts /\ apiAvail) =>
        /\ step.apiOpens = 1
        /\ ~step.wrote /\ ~step.changed
        /\ ~step.prompt /\ ~step.alert

\* a double-click on the widget and a browse-button click, each opening the
\* API once
C27_Witness ==
    /\ step.trigger /\ apiAvail /\ step.apiOpens = 1
    /\ \/ ext = "DoubleClickBrowser" /\ step.op = "click" /\ origCb
       \/ ext = "FileBrowser" /\ step.op = "button"

\* C28: opening and then closing a BCFolderBrowser dialog leaves the
\* document as it was: once no overlay is attached, document.onkeydown is the
\* handler it was before any dialog was opened (none), and an Escape key
\* press then changes nothing.
C28_DocumentStateRestored ==
    (ext = "BCFolderBrowser"
        /\ \A k \in 1..Len(dialogs) : ~dialogs[k].attached)
    => /\ docKeydown = 0
       /\ step.op = "escape" => (~step.changed /\ ~step.threw)

====
